---- MODULE Spec2Model ----
(***************************************************************************)
(* Model of the go-opentype font codec (package opentype): parsing the     *)
(* glyph tables of a font file (maxp, hhea, head, hmtx, loca, glyf) and    *)
(* glyph subsetting (Font.FilterGlyf).                                     *)
(*                                                                         *)
(* Pointers: a Font holds *Head, *Hhea and *Maxp as indices into the       *)
(* object heaps heads, hheas and maxps (0 is the nil pointer), because     *)
(* FilterGlyf copies these pointers and writes through them.  Hmtx, Loca   *)
(* and Glyf objects are never written after they are built, so a Font      *)
(* holds them by value (Nil for the nil pointer).                          *)
(*                                                                         *)
(* Integers keep the width of their Go type: uint16 arithmetic wraps.  A   *)
(* uint32 difference that wraps is a byte count near 2^32, more than any   *)
(* file of the model holds; uint32 sums of the model stay below 2^31.      *)
(* int is taken to be 64 bits wide.                                        *)
(***************************************************************************)
EXTENDS Integers, Sequences, FiniteSets, TLC

\* ------------------------------------------------------------------ bounds

\* Largest regular maxp.numGlyphs of a font file (65535 is drawn besides).
MaxGlyphs == 2
\* Largest raw entry stored in a file's loca region.
MaxLocaEntry == 2
\* Largest glyf table record length of a font file.
MaxGlyfLength == 4
\* Longest filter handed to FilterGlyf.
MaxFilterLen == 2
\* Longest filter of the repeated-call specification.
MaxChainFilterLen == 1
\* Fonts alive in the repeated-call specification (the parsed one included).
MaxFonts == 3

\* Most bytes a file holds from a table's offset on, and largest record length,
\* where a table is held byte by byte.
MaxTableBytes == 8

\* Most table records a file of the parse specification lacks.
MaxDropped == 2
\* Most table records of such a file that carry a wrong checksum.
MaxBadSums == 1

\* The most tables a builder holds.
MaxTables == 2

\* The greatest number of records of a name table.
MaxNameCount == 5461

\* The greatest string length of a name record.
MaxNameLength == 1

\* The most values of a cvt table.
MaxCvtValues == 1

\* The most writes a failing sink takes before it fails.
MaxSinkWrites == 4

\* The greatest of the small numbers of tables of an offset table.
MaxNumTables == 40

\* The most segments of a cmap subtable of format 4.
MaxSegCount == 2

\* The most character codes of a segment.
MaxSegmentCodes == 2

\* The most words of the glyph index array of a subtable.
MaxGlyphIDs == 1

\* The most records of a name table whose strings are followed.
MaxNameRecords == 2

\* The bytes of the storage area of such a name table.
MaxStorage == 2

\* ------------------------------------------------------- fixed-width integers

Uint16(x) == x % (2^16)

Int16(x) == IF Uint16(x) >= 2^15 THEN Uint16(x) - 2^16 ELSE Uint16(x)

MaxUint16 == 2^16 - 1

\* The nil pointer of a table held by value.
Nil == [nil |-> TRUE]

\* ---------------------------------------------------------------- checksums

\* A uint32 is held as its two 16-bit halves, so that sums wrap at 2^32.
U32(hi, lo) == [hi |-> hi, lo |-> lo]

Zero32 == U32(0, 0)

\* uint32 addition.
Add32(a, b) ==
    U32(Uint16(a.hi + b.hi + (a.lo + b.lo) \div (2^16)), Uint16(a.lo + b.lo))

\* The big-endian uint32 at bytes k..k+3 (k from 1) of b.
Word32(b, k) == U32(b[k] * 256 + b[k + 1], b[k + 2] * 256 + b[k + 3])

\* padBlocks: the number of 4-byte blocks that hold length bytes.
padBlocks(length) ==
    IF length % 4 = 0 THEN length \div 4 ELSE length \div 4 + 1

\* padLength: length rounded up to a multiple of 4.
padLength(length) == padBlocks(length) * 4

\* The sum of the first n big-endian words of b.
RECURSIVE sumBlocks(_, _)
sumBlocks(b, n) ==
    IF n = 0 THEN Zero32 ELSE Add32(sumBlocks(b, n - 1), Word32(b, 4 * n - 3))

\* calcCheckSum(r, length): padBlocks(length) words are read from r, the bytes
\* the reader holds from its position on; a reader that ends before them gives
\* an error and the sum 0.  No byte is read for a count of zero words.
calcCheckSum(r, length) ==
    IF Len(r) < padLength(length)
    THEN [checkSum |-> Zero32, err |-> IF Len(r) = 0 THEN "EOF" ELSE "unexpected EOF"]
    ELSE [checkSum |-> sumBlocks(r, padBlocks(length)), err |-> ""]

\* TableRecord.validate on a record tr, r being the bytes of the file from
\* tr.Offset on.  head is not checked here.  The error of a mismatch names the
\* tag; a read error with a matching sum (0) is returned as it is.
validate(tr, r) ==
    IF tr.Tag = "head" THEN [err |-> "", tag |-> ""]
    ELSE LET c == calcCheckSum(r, tr.Length)
         IN  IF c.checkSum # tr.CheckSum
             THEN [err |-> "invalid checksum", tag |-> tr.Tag]
             ELSE [err |-> c.err, tag |-> ""]

\* The Head of a file of glyph data g and checkSumAdjustment adj, by the fields
\* the model keeps.
GlyphHead(g, adj) ==
    [IndexToLocFormat |-> g.indexToLocFormat, CheckSumAdjustment |-> adj]

\* The Head a file holds.
FileHead(f) == GlyphHead(f, f.checkSumAdjustment)

\* Head.CheckSum: the sum of the head's words with CheckSumAdjustment set to 0
\* for the computation.  IndexToLocFormat is the low half of a word; the
\* fields the model does not keep are those of one fixed head (their sum is its
\* magic number).
HeadCheckSum(h) == Add32(U32(24335, 15605), U32(0, Uint16(h.IndexToLocFormat)))

\* The bytes the file holds at the offset of every table record but head's, as
\* validate reads them.
RecordBytes == <<0, 0, 0, 1>>

\* The table record of tag in the file f.
RecordOf(f, tag) ==
    [ Tag      |-> tag,
      Length   |-> Len(RecordBytes),
      CheckSum |-> IF tag = "head" THEN f.headCheckSum
                   ELSE IF tag \in f.badSums
                   THEN Add32(calcCheckSum(RecordBytes, Len(RecordBytes)).checkSum, U32(0, 1))
                   ELSE calcCheckSum(RecordBytes, Len(RecordBytes)).checkSum ]

\* parseTableRecord: every record is validated, in the order of a map
\* iteration, and the first error ends it: the errors it can return (a nil
\* error when no record fails).
parseTableRecord(f) ==
    LET failed == {r \in {validate(RecordOf(f, tag), RecordBytes) : tag \in f.tags} :
                      r.err # ""}
    IN  IF failed = {} THEN {[err |-> "", tag |-> ""]} ELSE failed

\* parseHead: the Head is read; the checksum comparison assigns its error to a
\* variable declared inside the if block, so the error returned is the one of
\* the read (the file holds the table: nil).
parseHead(f, checkSum) ==
    LET h       == FileHead(f)
        readErr == ""
        actual  == HeadCheckSum(h)
        inner   == IF checkSum # actual THEN "invalid checksum" ELSE ""
    IN  [h |-> h, err |-> readErr, shadowed |-> inner]

\* simpleCheckSum of a table whose store writes body and the zero padding:
\* the sum of the padded words.
simpleCheckSum(body) ==
    calcCheckSum(body \o [k \in 1..(padLength(Len(body)) - Len(body)) |-> 0],
                 Len(body)).checkSum

\* ---------------------------------------------------------------- the file

TableTags ==
    {"name", "head", "hhea", "maxp", "hmtx", "cmap", "cvt ", "fpgm", "prep", "loca", "glyf"}

\* The sets of table records a font file of the model holds.
FileTagSets ==
    {TableTags, TableTags \ {"glyf"}, TableTags \ {"loca"}}

SfntVersions == {"TrueTypeOpenType", "AppleTrueType", "CFFOpenType", "AppleType1"}

\* Raw loca regions: the entries the file holds from the loca offset to its end.
LocaRegions(size) ==
    UNION {[1..n -> 0..MaxLocaEntry] : n \in 0..size}

\* The 16-bit words parseHmtx reads: two for each paired record, one for each
\* left side bearing, their count being numGlyphs - numberOfHMetrics in uint16.
HmtxWordsRead(numGlyphs, numberOfHMetrics) ==
    2 * numberOfHMetrics + Uint16(numGlyphs - numberOfHMetrics)

\* The 16-bit words a file holds from its hmtx offset to its end: a short file
\* holds the metrics of MaxGlyphs glyphs, a long file more than parseHmtx can ask
\* for.  Long files are drawn where parseHmtx reads past the end of a short one.
HmtxWordsShort == 2 * MaxGlyphs

HmtxWordsLong == 3 * (2^16)

\* A font file, by the fields the glyph tables are parsed from.  The byte at
\* position p of the glyf region is GlyfByte(p); the 16-bit word k of the hmtx
\* region is HmtxWord(k).  Files that are not TrueType, or lack a table record,
\* are drawn without glyph data.  badSums are the tags of the records, head
\* aside, whose checksum is not the sum of their table; headCheckSum is the
\* checksum of the head record.  The files subset by FilterGlyf carry the right
\* checksums.
GlyphFiles ==
    { f \in [ sfntVersion      : SfntVersions,
              tags             : FileTagSets,
              numGlyphs        : (0..MaxGlyphs) \cup {MaxUint16},
              numberOfHMetrics : 0..MaxGlyphs,
              indexToLocFormat : {0, 1},
              loca             : LocaRegions(MaxGlyphs + 1),
              glyfLength       : 0..MaxGlyfLength ] :
        /\ Len(f.loca) <= Uint16(f.numGlyphs + 1)
        /\ f.sfntVersion \notin {"TrueTypeOpenType", "AppleTrueType"}
              => f.loca = <<>> /\ f.glyfLength = 0 /\ f.indexToLocFormat = 0
                 /\ f.tags = TableTags
        /\ f.sfntVersion = "AppleType1" => f.numGlyphs = 0 /\ f.numberOfHMetrics = 0
        /\ f.tags # TableTags => f.glyfLength = 0 /\ f.numberOfHMetrics = 0 }

\* The file of glyph data g with words 16-bit words from its hmtx offset on,
\* wrong checksums in the records bad, and the head fields adj and sum.
FileOf(g, words, bad, adj, sum) ==
    [ sfntVersion        |-> g.sfntVersion,
      tags               |-> g.tags,
      numGlyphs          |-> g.numGlyphs,
      numberOfHMetrics   |-> g.numberOfHMetrics,
      indexToLocFormat   |-> g.indexToLocFormat,
      loca               |-> g.loca,
      glyfLength         |-> g.glyfLength,
      hmtxWords          |-> words,
      badSums            |-> bad,
      checkSumAdjustment |-> adj,
      headCheckSum       |-> sum ]

\* The lengths of the files that hold the glyph data g: short, and long where
\* parseHmtx reads past the end of the short one.
HmtxLengths(g) ==
    {HmtxWordsShort} \cup
        (IF HmtxWordsRead(g.numGlyphs, g.numberOfHMetrics) > HmtxWordsShort
         THEN {HmtxWordsLong} ELSE {})

Files ==
    UNION { { FileOf(g, w, {}, 0, HeadCheckSum(GlyphHead(g, 0))) : w \in HmtxLengths(g) } :
            g \in GlyphFiles }

\* Byte p (from 0) of the glyf region: the table's bytes, then zero padding.
GlyfByte(f, p) == IF p < f.glyfLength THEN (p % 255) + 1 ELSE 0

\* Bytes from the glyf offset to the end of the file: the padded table.
GlyfAvail(f) == ((f.glyfLength + 3) \div 4) * 4

\* 16-bit word k (from 0) of the hmtx region.
HmtxWord(k) == Uint16(k + 1)

\* A []int16 of n entries, entry j (from 1) being At(j).  Only the wrapped
\* counts of parseHmtx make slices longer than LsbKept; of those the length and
\* the first LsbKept entries are held, which is as far as a glyph ID of the
\* model indexes.
LsbKept == (IF MaxGlyphs > MaxFilterLen THEN MaxGlyphs ELSE MaxFilterLen) + 1

Int16Slice(n, At(_)) ==
    [len |-> n, kept |-> [j \in 1..(IF n < LsbKept THEN n ELSE LsbKept) |-> At(j)]]

\* ------------------------------------------------------------------- loca

\* Loca.IsShort
IsShort(l) == l.indexToLocFormat = 0

\* Loca.Len
LocaLen(l) == IF IsShort(l) THEN Len(l.offsetsShort) ELSE Len(l.offsetsLong)

\* Loca.Get(i), i counted from 0: the short form stores offset / 2.
LocaGet(l, i) ==
    IF IsShort(l) THEN 2 * l.offsetsShort[i + 1] ELSE l.offsetsLong[i + 1]

\* The number of entries parseLoca reads: numGlyphs + 1 in uint16.
LocaSize(numGlyphs) == Uint16(numGlyphs + 1)

\* parseLoca: size entries of the file's loca region; binary.Read fails, leaving
\* the zeroed slice, when the file ends before them.  The Loca is returned (and
\* stored in the font) also when the read fails.
parseLoca(f, numGlyphs, indexToLocFormat) ==
    LET size    == LocaSize(numGlyphs)
        ok      == Len(f.loca) >= size
        entries == IF ok THEN SubSeq(f.loca, 1, size) ELSE [i \in 1..size |-> 0]
        short   == indexToLocFormat = 0
    IN  [ l   |-> [ indexToLocFormat |-> indexToLocFormat,
                    offsetsShort     |-> IF short THEN entries ELSE <<>>,
                    offsetsLong      |-> IF short THEN <<>> ELSE entries ],
          err |-> IF ok THEN "" ELSE "unexpected EOF" ]

\* ------------------------------------------------------------------- glyf

\* The loop of parseGlyf from entry i (counted from 0): slice i is the next
\* last - first bytes of the file, read in sequence from position pos of the glyf
\* region.  last - first is a uint32: it wraps when last < first, and the read
\* of that many bytes runs past the end of the file, as does any read of more
\* bytes than the file holds.  On failure the slices not read are left empty.
RECURSIVE readGlyf(_, _, _, _, _, _)
readGlyf(f, length, l, i, pos, data) ==
    IF i >= LocaLen(l)
    THEN [g |-> [data |-> data], err |-> ""]
    ELSE LET first == LocaGet(l, i)
             last  == IF i >= LocaLen(l) - 1 THEN length ELSE LocaGet(l, i + 1)
             n     == last - first
         IN  IF last < first \/ pos + n > GlyfAvail(f)
             THEN [ g   |-> [data |-> data \o [k \in 1..(LocaLen(l) - i) |-> <<>>]],
                    err |-> "unexpected EOF" ]
             ELSE readGlyf(f, length, l, i + 1, pos + n,
                           Append(data, [k \in 1..n |-> GlyfByte(f, pos + k - 1)]))

\* parseGlyf: one slice per loca entry.
parseGlyf(f, length, l) == readGlyf(f, length, l, 0, 0, <<>>)

\* ------------------------------------------------------------------- hmtx

\* parseHmtx: numberOfHMetrics paired records, then numGlyphs - numberOfHMetrics
\* (in uint16) left side bearings, read in sequence from the hmtx offset.  The
\* read that runs past the end of the file fails and ends the parse of the
\* table: the records not read stay nil, the bearings not read stay zero.
parseHmtx(f, numGlyphs, numberOfHMetrics) ==
    LET pairs    == IF 2 * numberOfHMetrics <= f.hmtxWords
                    THEN numberOfHMetrics ELSE f.hmtxWords \div 2
        lsbCount == Uint16(numGlyphs - numberOfHMetrics)
        lsbRead  == IF f.hmtxWords - 2 * numberOfHMetrics >= lsbCount
                    THEN lsbCount ELSE f.hmtxWords - 2 * numberOfHMetrics
        At(j)    == IF j <= lsbRead
                    THEN Int16(HmtxWord(2 * numberOfHMetrics + j - 1)) ELSE 0
        Empty(j) == 0
    IN  [ h   |-> [ HMetrics |->
                        [i \in 1..numberOfHMetrics |->
                            IF i <= pairs
                            THEN [ AdvanceWidth |-> HmtxWord(2 * (i - 1)),
                                   Lsb          |-> Int16(HmtxWord(2 * (i - 1) + 1)) ]
                            ELSE Nil],
                    LeftSideBearings |->
                        IF pairs < numberOfHMetrics THEN Int16Slice(0, Empty)
                        ELSE Int16Slice(lsbCount, At) ],
          err |-> IF pairs < numberOfHMetrics \/ lsbRead < lsbCount
                  THEN "unexpected EOF" ELSE "" ]

\* ------------------------------------------------------------- parsing a font

\* A Table interface value holding a pointer of the given table type; the nil
\* interface holds no type.
NilInterface == [type |-> "nil"]

AsTable(type, isNilPointer) == [type |-> type, nilPointer |-> isNilPointer]

\* tableRequired: the targets that compare equal to nil are reported by their
\* Tag(), which a nil interface does not have (the call panics).  A nil pointer
\* wrapped in the interface is not equal to nil.
tableRequired(target) ==
    LET missed == {i \in DOMAIN target : target[i] = NilInterface}
    IN  IF missed # {} THEN "panic" ELSE ""

\* The empty Font of parseOpenTypeTable, with the heaps and the parser's errs.
\* log keeps, for every call of optionalFontParser.parse, its tag, whether the
\* table is optional, whether the record was found, and the parser's error.
newParse(hs, hhs, ms) ==
    [ font  |-> [ Name |-> FALSE, CMap |-> FALSE, Head |-> 0, Hhea |-> 0, Maxp |-> 0,
                  Hmtx |-> Nil, Cvt |-> FALSE, Fpgm |-> FALSE, Prep |-> FALSE,
                  Loca |-> Nil, Glyf |-> Nil ],
      heads |-> hs, hheas |-> hhs, maxps |-> ms,
      errs  |-> <<>>, panic |-> FALSE, log |-> <<>> ]

\* The tables whose contents the model does not hold are marked present.
stepName(st, f) == [st |-> [st EXCEPT !.font.Name = TRUE], err |-> ""]

stepCMap(st, f) == [st |-> [st EXCEPT !.font.CMap = TRUE], err |-> ""]

stepCvt(st, f) == [st |-> [st EXCEPT !.font.Cvt = TRUE], err |-> ""]

stepFpgm(st, f) == [st |-> [st EXCEPT !.font.Fpgm = TRUE], err |-> ""]

stepPrep(st, f) == [st |-> [st EXCEPT !.font.Prep = TRUE], err |-> ""]

stepHead(st, f) ==
    LET r == parseHead(f, RecordOf(f, "head").CheckSum)
    IN  [ st  |-> [st EXCEPT !.heads = Append(@, r.h),
                             !.font.Head = Len(st.heads) + 1],
          err |-> r.err ]

stepHhea(st, f) ==
    [ st  |-> [st EXCEPT !.hheas = Append(@, [NumberOfHMetrics |-> f.numberOfHMetrics]),
                         !.font.Hhea = Len(st.hheas) + 1],
      err |-> "" ]

stepMaxp(st, f) ==
    [ st  |-> [st EXCEPT !.maxps = Append(@, [NumGlyphs |-> f.numGlyphs]),
                         !.font.Maxp = Len(st.maxps) + 1],
      err |-> "" ]

stepHmtx(st, f) ==
    LET req == tableRequired(<<AsTable("Maxp", st.font.Maxp = 0), AsTable("Hhea", st.font.Hhea = 0)>>)
    IN  IF req # "" THEN [st |-> st, err |-> req]
        ELSE IF st.font.Maxp = 0 \/ st.font.Hhea = 0 THEN [st |-> st, err |-> "panic"]
        ELSE LET r == parseHmtx(f, st.maxps[st.font.Maxp].NumGlyphs,
                                st.hheas[st.font.Hhea].NumberOfHMetrics)
             IN  [st |-> [st EXCEPT !.font.Hmtx = r.h], err |-> r.err]

stepLoca(st, f) ==
    LET req == tableRequired(<<AsTable("Maxp", st.font.Maxp = 0), AsTable("Head", st.font.Head = 0)>>)
    IN  IF req # "" THEN [st |-> st, err |-> req]
        ELSE IF st.font.Maxp = 0 \/ st.font.Head = 0 THEN [st |-> st, err |-> "panic"]
        ELSE LET r == parseLoca(f, st.maxps[st.font.Maxp].NumGlyphs,
                                st.heads[st.font.Head].IndexToLocFormat)
             IN  [st |-> [st EXCEPT !.font.Loca = r.l], err |-> r.err]

stepGlyf(st, f) ==
    LET req == tableRequired(<<AsTable("Loca", st.font.Loca = Nil)>>)
    IN  IF req # "" THEN [st |-> st, err |-> req]
        ELSE IF st.font.Loca = Nil THEN [st |-> st, err |-> "panic"]
        ELSE LET r == parseGlyf(f, f.glyfLength, st.font.Loca)
             IN  [st |-> [st EXCEPT !.font.Glyf = r.g], err |-> r.err]

\* The parser closure handed to optionalFontParser.parse for the table tag.
runParser(tag, st, f) ==
    CASE tag = "name" -> stepName(st, f)
      [] tag = "head" -> stepHead(st, f)
      [] tag = "hhea" -> stepHhea(st, f)
      [] tag = "maxp" -> stepMaxp(st, f)
      [] tag = "hmtx" -> stepHmtx(st, f)
      [] tag = "cmap" -> stepCMap(st, f)
      [] tag = "cvt " -> stepCvt(st, f)
      [] tag = "fpgm" -> stepFpgm(st, f)
      [] tag = "prep" -> stepPrep(st, f)
      [] tag = "loca" -> stepLoca(st, f)
      [] tag = "glyf" -> stepGlyf(st, f)

\* missingRecord reporting optional tables too.
missingRecordAlways(errs, tag, optional) ==
    Append(errs, [tag |-> tag, msg |-> "table record is not found"])

\* The errs of optionalFontParser.parse when the record of tag is not found.
missingRecord(errs, tag, optional) ==
    IF optional THEN errs
    ELSE Append(errs, [tag |-> tag, msg |-> "table record is not found"])

\* optionalFontParser.parse: a missing record is an error unless optional; the
\* parser's error is appended under the tag.  A panic ends the parse.  (The
\* state and the parser's result are bound as values, each computed once.)
pParse(st, f, tag, optional) ==
    CHOOSE out \in
        { IF s.panic THEN s
          ELSE IF tag \notin f.tags
          THEN [s EXCEPT !.errs = missingRecord(@, tag, optional),
                         !.log  = Append(@, [tag |-> tag, optional |-> optional,
                                             found |-> FALSE, err |-> ""])]
          ELSE CHOOSE o \in
                   { IF r.err = "panic" THEN [s EXCEPT !.panic = TRUE]
                     ELSE [r.st EXCEPT !.errs = IF r.err # ""
                                                THEN Append(@, [tag |-> tag, msg |-> r.err])
                                                ELSE @,
                                       !.log  = Append(@, [tag |-> tag, optional |-> optional,
                                                           found |-> TRUE, err |-> r.err])]
                     : r \in {runParser(tag, s, f)} } : TRUE
          : s \in {st} } : TRUE

\* The parser parseTrueTypeFont hands to parseOpenTypeTable: cvt, fpgm, prep,
\* loca, glyf.
trueTypeTables(st, f) ==
    LET s1 == pParse(st, f, "cvt ", TRUE)
        s2 == pParse(s1, f, "fpgm", TRUE)
        s3 == pParse(s2, f, "prep", TRUE)
        s4 == pParse(s3, f, "loca", FALSE)
    IN  pParse(s4, f, "glyf", FALSE)

\* The parser parseCFFFont hands to parseOpenTypeTable: nothing yet.
cffTables(st, f) == st

\* parseOpenTypeTable: verr is the error parseTableRecord returned, which ends
\* the parse with the empty Font; otherwise the common tables are parsed, then
\* those of the outline.
parseOpenTypeTable(f, hs, hhs, ms, verr, outline) ==
    IF verr.err # ""
    THEN [newParse(hs, hhs, ms) EXCEPT !.errs = <<[tag |-> verr.tag, msg |-> verr.err]>>]
    ELSE LET s0 == newParse(hs, hhs, ms)
             s1 == pParse(s0, f, "name", FALSE)
             s2 == pParse(s1, f, "head", FALSE)
             s3 == pParse(s2, f, "hhea", FALSE)
             s4 == pParse(s3, f, "maxp", FALSE)
             s5 == pParse(s4, f, "hmtx", FALSE)
             s6 == pParse(s5, f, "cmap", TRUE)
         IN  IF outline = "TrueType" THEN trueTypeTables(s6, f) ELSE cffTables(s6, f)

parseTrueTypeFont(f, hs, hhs, ms, verr) ==
    parseOpenTypeTable(f, hs, hhs, ms, verr, "TrueType")

parseCFFFont(f, hs, hhs, ms, verr) ==
    parseOpenTypeTable(f, hs, hhs, ms, verr, "CFF")

\* parseFont: dispatch on the sfnt version.  outcome is "ok" (nil error),
\* "error" or "panic"; hasFont tells whether a Font is returned with it.
parseFont(f, hs, hhs, ms, verr) ==
    IF f.sfntVersion \in {"TrueTypeOpenType", "AppleTrueType"}
    THEN CHOOSE out \in
             { [ hasFont |-> ~st.panic, st |-> st,
                 outcome |-> IF st.panic THEN "panic"
                             ELSE IF st.errs = <<>> THEN "ok" ELSE "error",
                 errs |-> st.errs ] : st \in {parseTrueTypeFont(f, hs, hhs, ms, verr)} } : TRUE
    ELSE IF f.sfntVersion = "CFFOpenType"
    THEN CHOOSE out \in
             { [ hasFont |-> ~st.panic, st |-> st,
                 outcome |-> IF st.panic THEN "panic"
                             ELSE IF st.errs = <<>> THEN "ok" ELSE "error",
                 errs |-> st.errs ] : st \in {parseCFFFont(f, hs, hhs, ms, verr)} } : TRUE
    ELSE [ hasFont |-> FALSE, st |-> newParse(hs, hhs, ms), outcome |-> "error",
           errs |-> <<[tag |-> "sfnt", msg |-> "is not supported SFNT Version"]>> ]

\* -------------------------------------------------------------- subsetting

\* filterIndex with the insertion left out.
filterIndexNoInsert(filter) == filter

\* The index list f of FilterGlyf: filter[0] is put in front unless it is 0.
filterIndex(filter) ==
    (IF filter[1] # 0 THEN <<filter[1]>> ELSE <<>>) \o filter

\* maxGID of FilterGlyf: the largest glyph ID of the filter.
maxGID(filter) ==
    IF filter = <<>> THEN 0
    ELSE CHOOSE m \in {filter[i] : i \in DOMAIN filter} :
             \A i \in DOMAIN filter : filter[i] <= m

\* The range check of FilterGlyf: NumGlyphs - 1 is computed in uint16.
exceedsMax(gid, numGlyphs) == gid > Uint16(numGlyphs - 1)

\* Glyf.filter: slice i of the result is slice f[i] of g.
glyfFilter(g, f) == [data |-> [i \in 1..Len(f) |-> g.data[f[i] + 1]]]

\* Sum of the byte lengths of the first n slices, as generateLoca keeps it.
RECURSIVE runningOffset(_, _)
runningOffset(data, n) ==
    IF n = 0 THEN 0 ELSE runningOffset(data, n - 1) + Len(data[n])

\* generateLoca with the extra entry left at zero.
generateLocaNoTotal(g) ==
    [ indexToLocFormat |-> 1,
      offsetsShort     |-> <<>>,
      offsetsLong      |-> [i \in 1..(Len(g.data) + 1) |->
                               IF i = Len(g.data) + 1 THEN 0 ELSE runningOffset(g.data, i - 1)] ]

\* Glyf.generateLoca: long format, one entry per slice and the extra entry.
generateLoca(g) ==
    [ indexToLocFormat |-> 1,
      offsetsShort     |-> <<>>,
      offsetsLong      |-> [i \in 1..(Len(g.data) + 1) |-> runningOffset(g.data, i - 1)] ]

\* numHM of Hmtx.filter: one past the last position of f whose glyph has a
\* paired record in h.
numHM(h, f) ==
    LET th   == Uint16(Len(h.HMetrics))
        hits == {i \in DOMAIN f : f[i] < th}
    IN  IF hits = {} THEN 0 ELSE CHOOSE m \in hits : \A i \in hits : i <= m

\* Hmtx.filter: the first numHM glyphs get paired records (advance width 0 for
\* a glyph that had none), the others left side bearings.
hmtxFilter(h, f) ==
    LET th == Uint16(Len(h.HMetrics))
        n  == numHM(h, f)
    IN  [ HMetrics |->
              [i \in 1..n |->
                  IF f[i] < th THEN h.HMetrics[f[i] + 1]
                  ELSE [ AdvanceWidth |-> 0,
                         Lsb |-> h.LeftSideBearings.kept[Uint16(f[i] - th) + 1] ]],
          LeftSideBearings |->
              LET At(j) == h.LeftSideBearings.kept[Uint16(f[n + j] - th) + 1]
              IN  Int16Slice(Len(f) - n, At) ]

\* Whether Glyf.filter indexes past g.data (or g is nil).
glyfFilterPanics(g, f) ==
    g = Nil \/ \E i \in DOMAIN f : f[i] >= Len(g.data)

\* Whether Hmtx.filter indexes past h.LeftSideBearings (or h is nil).
hmtxFilterPanics(h, f) ==
    h = Nil \/ \E i \in DOMAIN f :
                   /\ f[i] >= Uint16(Len(h.HMetrics))
                   /\ Uint16(f[i] - Uint16(Len(h.HMetrics))) >= h.LeftSideBearings.len

\* Font.FilterGlyf, up to its writes: "panic", "error", or "ok" with the new
\* glyf, loca and hmtx.
filterGlyf(font, filter, ms) ==
    IF filter = <<>> \/ font.Maxp = 0 THEN [outcome |-> "panic"]
    ELSE LET f == filterIndex(filter)
         IN  IF exceedsMax(maxGID(filter), ms[font.Maxp].NumGlyphs)
             THEN [outcome |-> "error"]
             ELSE IF glyfFilterPanics(font.Glyf, f) \/ hmtxFilterPanics(font.Hmtx, f)
             THEN [outcome |-> "panic"]
             ELSE LET g == glyfFilter(font.Glyf, f)
                  IN  [ outcome |-> "ok", f |-> f, Glyf |-> g, Loca |-> generateLoca(g),
                        Hmtx |-> hmtxFilter(font.Hmtx, f) ]

\* The Font FilterGlyf returns: the pointers of the source, with the new glyf,
\* loca and hmtx.
newFont(font, r) == [font EXCEPT !.Glyf = r.Glyf, !.Loca = r.Loca, !.Hmtx = r.Hmtx]

\* Font.Tables: the ten table pointers as Table values, those equal to nil
\* left out.  A nil pointer in a Table value is not equal to nil.
Tables(font) ==
    LET tables == << AsTable("Head", font.Head = 0), AsTable("Name", ~font.Name),
                     AsTable("Hhea", font.Hhea = 0), AsTable("Maxp", font.Maxp = 0),
                     AsTable("Hmtx", font.Hmtx = Nil), AsTable("Cvt", ~font.Cvt),
                     AsTable("Fpgm", ~font.Fpgm), AsTable("Prep", ~font.Prep),
                     AsTable("Loca", font.Loca = Nil), AsTable("Glyf", font.Glyf = Nil) >>
    IN  SelectSeq(tables, LAMBDA x : x # NilInterface)

\* ------------------------------------------------------------------ state

VARIABLES
    file,    \* the font file being read
    fonts,   \* the Fonts returned so far, in the order they were returned
    heads,   \* the Head objects:  fonts[i].Head indexes them
    hheas,   \* the Hhea objects:  fonts[i].Hhea indexes them
    maxps,   \* the Maxp objects:  fonts[i].Maxp indexes them
    builder, \* the tables of the Builder, in the order of b.tables
    last     \* the last call: its arguments, its outcome, the source before it

vars == <<file, fonts, heads, hheas, maxps, builder, last>>

\* What a caller reads through a Font: the counts behind its pointers and its
\* glyph tables.
FontView(font, hs, hhs, ms) ==
    [ numGlyphs        |-> IF font.Maxp = 0 THEN -1 ELSE ms[font.Maxp].NumGlyphs,
      numberOfHMetrics |-> IF font.Hhea = 0 THEN -1 ELSE hhs[font.Hhea].NumberOfHMetrics,
      indexToLocFormat |-> IF font.Head = 0 THEN -1 ELSE hs[font.Head].IndexToLocFormat,
      Glyf |-> font.Glyf, Loca |-> font.Loca, Hmtx |-> font.Hmtx ]

\* Font i as seen in the current state.
View(i) == FontView(fonts[i], heads, hheas, maxps)

\* The filters handed to FilterGlyf.
FiltersUpTo(n) == UNION {[1..k -> 0..MaxGlyphs] : k \in 0..n}

Filters == FiltersUpTo(MaxFilterLen)

ChainFilters == FiltersUpTo(MaxChainFilterLen)

\* The files of the repeated-call specification: TrueType files with all their
\* tables, regular counts, and loca entry i holding i as far as the loca
\* entries of the model reach.
ChainFiles ==
    {f \in Files : /\ f.sfntVersion = "TrueTypeOpenType"
                   /\ f.tags = TableTags
                   /\ f.numGlyphs \in 1..MaxGlyphs
                   /\ f.numberOfHMetrics <= f.numGlyphs
                   /\ f.glyfLength = MaxGlyfLength
                   /\ f.loca = [i \in 1..(f.numGlyphs + 1) |->
                                   IF i - 1 < MaxLocaEntry THEN i - 1 ELSE MaxLocaEntry]}

InitWith(files) ==
    /\ file \in files
    /\ fonts = <<>>
    /\ heads = <<>>
    /\ hheas = <<>>
    /\ maxps = <<>>
    /\ builder = <<>>
    /\ last = [op |-> "none", outcome |-> "ok"]

Init == InitWith(Files)

InitChain == InitWith(ChainFiles)

\* ParseFont(file): the Font is returned also with a non-nil error, but not
\* when the version is unsupported or the parse panics.
ParseFont ==
    /\ last.op = "none"
    /\ \E verr \in parseTableRecord(file) :
       \E r \in {parseFont(file, heads, hheas, maxps, verr)} :
           /\ fonts' = IF r.hasFont THEN Append(fonts, r.st.font) ELSE fonts
           /\ heads' = IF r.hasFont THEN r.st.heads ELSE heads
           /\ hheas' = IF r.hasFont THEN r.st.hheas ELSE hheas
           /\ maxps' = IF r.hasFont THEN r.st.maxps ELSE maxps
           /\ last' = [ op |-> "ParseFont", outcome |-> r.outcome, errs |-> r.errs,
                        verr |-> verr, log |-> r.st.log ]
    /\ UNCHANGED <<file, builder>>

\* The writes FilterGlyf makes through the pointers of the new Font.
setNumGlyphs(ms, font, f) == [ms EXCEPT ![font.Maxp].NumGlyphs = Uint16(Len(f))]

\* setNumberOfHMetrics with the write left out: the count stays the source's.
setNumberOfHMetricsKept(hhs, font, h) == hhs

setNumberOfHMetrics(hhs, font, h) ==
    [hhs EXCEPT ![font.Hhea].NumberOfHMetrics = Uint16(Len(h.HMetrics))]

setIndexToLocFormat(hs, font, l) ==
    [hs EXCEPT ![font.Head].IndexToLocFormat = l.indexToLocFormat]

\* fonts[i].FilterGlyf(filter), called on a font that came without an error.
FilterGlyf(i, filter) ==
    /\ i \in DOMAIN fonts
    /\ last.outcome # "panic"
    /\ last.op = "ParseFont" => last.outcome = "ok"
    /\ \E r \in {filterGlyf(fonts[i], filter, maxps)} :
       LET font == fonts[i]
           ok   == r.outcome = "ok"
           done == ok /\ font.Hhea # 0 /\ font.Head # 0
       IN  /\ fonts' = IF done THEN Append(fonts, newFont(font, r)) ELSE fonts
           /\ maxps' = IF ok THEN setNumGlyphs(maxps, font, r.f) ELSE maxps
           /\ hheas' = IF ok /\ font.Hhea # 0
                       THEN setNumberOfHMetrics(hheas, font, r.Hmtx) ELSE hheas
           /\ heads' = IF done THEN setIndexToLocFormat(heads, font, r.Loca) ELSE heads
           /\ last' = [ op |-> "FilterGlyf", src |-> i, filter |-> filter,
                        outcome |-> IF ok /\ ~done THEN "panic" ELSE r.outcome,
                        pre |-> View(i) ]
    /\ UNCHANGED <<file, builder>>

\* One file is parsed and the parsed font is subset once.
Next ==
    \/ ParseFont
    \/ \E filter \in Filters : last.op = "ParseFont" /\ FilterGlyf(1, filter)

Spec == Init /\ [][Next]_vars

\* One file is parsed; the parsed font and the fonts made from it are subset
\* again and again, until a call fails.
NextChain ==
    \/ ParseFont
    \/ \E i \in 1..MaxFonts, filter \in ChainFilters :
          Len(fonts) < MaxFonts /\ last.outcome = "ok" /\ FilterGlyf(i, filter)

SpecChain == InitChain /\ [][NextChain]_vars

\* One file is parsed and the parsed font is subset again and again, each time
\* into a new font, until a call fails.
NextSource ==
    \/ ParseFont
    \/ \E filter \in ChainFilters :
          Len(fonts) < MaxFonts /\ last.outcome = "ok" /\ FilterGlyf(1, filter)

SpecSource == InitChain /\ [][NextSource]_vars

\* ------------------------------------------------------- parsing any file

\* The sets of table records of the files parsed: at most MaxDropped records
\* are missing.
ParseTagSets ==
    {TableTags \ d : d \in {x \in SUBSET TableTags : Cardinality(x) <= MaxDropped}}

\* The glyph data of the files with the records tags: one glyph, and a loca
\* region that is too short, in order, or out of order.
ParseGlyphs(tags) ==
    { [ sfntVersion |-> v, tags |-> tags, numGlyphs |-> 1, numberOfHMetrics |-> 1,
        indexToLocFormat |-> 0, loca |-> l, glyfLength |-> MaxGlyfLength ] :
        v \in {"TrueTypeOpenType"}, l \in {<<0>>, <<0, 1>>, <<1, 0>>} }
    \cup
    { [ sfntVersion |-> "CFFOpenType", tags |-> tags, numGlyphs |-> 1,
        numberOfHMetrics |-> 1, indexToLocFormat |-> 0, loca |-> <<>>, glyfLength |-> 0 ] }

\* The files with the records tags: at most MaxBadSums records other than
\* head's carry a wrong checksum; head's checksum is right or off by one.
ParseFilesWith(tags) ==
    UNION { { FileOf(g, HmtxWordsShort, bad, adj,
                     Add32(HeadCheckSum(GlyphHead(g, adj)), U32(0, d))) :
                bad \in {b \in SUBSET (tags \ {"head"}) : Cardinality(b) <= MaxBadSums},
                adj \in {0, 1}, d \in {0, 1} } :
            g \in ParseGlyphs(tags) }

InitParse == InitWith(UNION {ParseFilesWith(tags) : tags \in ParseTagSets})

\* fonts[i].Tables()
FontTables(i) ==
    /\ i \in DOMAIN fonts
    /\ last.op = "ParseFont"
    /\ last' = [op |-> "Tables", outcome |-> "ok", src |-> i, tables |-> Tables(fonts[i])]
    /\ UNCHANGED <<file, fonts, heads, hheas, maxps, builder>>

\* One file is parsed, and the tables of the font returned are listed.
NextParse ==
    \/ ParseFont
    \/ FontTables(1)

SpecParse == InitParse /\ [][NextParse]_vars

\* ----------------------------------------------------- one table record

\* The values of the bytes held one by one.
ByteValues == {0, 255}

\* The bytes a file holds from a table's offset to its end.
TableRegions == UNION {[1..n -> ByteValues] : n \in 0..MaxTableBytes}

\* The table of a record of the given length in the region b: its first length
\* bytes, as far as the file holds them.
TableBody(b, length) == SubSeq(b, 1, IF length <= Len(b) THEN length ELSE Len(b))

\* The table records that point at the region b of a file, each with the
\* bytes of the region.  Their checksum is the one a writer computes for the
\* table, the sum of the words the file holds there, or zero.
RecordsAt(b) ==
    UNION { { [Tag |-> tag, Length |-> n, CheckSum |-> c, bytes |-> b] :
                tag \in {"cvt ", "head"},
                c \in { simpleCheckSum(TableBody(b, n)),
                        calcCheckSum(b, n).checkSum, Zero32 } } :
            n \in 0..MaxTableBytes }

InitRecord == InitWith(UNION {RecordsAt(b) : b \in TableRegions})

\* tr.validate(f) on the record of the file.
ValidateRecord ==
    /\ last.op = "none"
    /\ \E r \in {validate(file, file.bytes)} :
           last' = [ op |-> "validate", outcome |-> IF r.err = "" THEN "ok" ELSE "error",
                     err |-> r.err, tag |-> r.tag ]
    /\ UNCHANGED <<file, fonts, heads, hheas, maxps, builder>>

NextRecord == ValidateRecord

SpecRecord == InitRecord /\ [][NextRecord]_vars

\* ---------------------------------------------------------------- builder

\* Size of the OffsetTable, which OffsetTable.Length() returns.
OffsetTableLength == 12

\* Size of a TableRecord.
TableRecordLength == 16

\* Head.Length
HeadLength == 54

PlatformIDMacintosh == 1

PlatformIDWindows == 3

\* The Version of a maxp table of version 0.5, and the Length of such a table.
MaxpVersion05 == 20480

MaxpLength05 == 6

\* The size of a Maxp, which is the Length of a table of version 1.0.
MaxpSize == 32

\* A Table value holding a pointer to the table v, and one holding a nil
\* pointer of the table type.
Pointer(type, v) == [type |-> type, nilPointer |-> FALSE, v |-> v]

NilPointer(type) == [type |-> type, nilPointer |-> TRUE, v |-> Nil]

\* t.Tag(): the methods return the tag of the type without reading the table.
Tag(t) ==
    CASE t.type = "Head" -> "head"
      [] t.type = "Name" -> "name"
      [] t.type = "Maxp" -> "maxp"
      [] t.type = "Hhea" -> "hhea"
      [] t.type = "Fpgm" -> "fpgm"
      [] t.type = "Prep" -> "prep"
      [] t.type = "Hmtx" -> "hmtx"
      [] t.type = "Cvt"  -> "cvt "
      [] t.type = "Loca" -> "loca"
      [] t.type = "Glyf" -> "glyf"

\* The name tables of the model have equal records: NameRecords holds their
\* number, len, and the record, each.  The sum of nr.Length over the records.
sumLength(nrs) == nrs.len * nrs.each.Length

\* Name.Length: the header and the records are counted in uint16 from Count,
\* the strings from the Length of the records.
NameLength(n) ==
    Uint16(6 + 12 * n.Count + (IF n.Format = 1 THEN 2 + 4 * n.LangTagCount ELSE 0))
        + sumLength(n.NameRecords)

\* Glyf.Length: the bytes of the first n glyphs of data.
RECURSIVE GlyfLength(_, _)
GlyfLength(data, n) == IF n = 0 THEN 0 ELSE GlyfLength(data, n - 1) + Len(data[n])

\* t.Length()
Length(t) ==
    CASE t.type = "Head" -> HeadLength
      [] t.type = "Name" -> NameLength(t.v)
      [] t.type = "Maxp" -> IF t.v.Version = MaxpVersion05 THEN MaxpLength05 ELSE MaxpSize
      [] t.type = "Hmtx" -> 4 * Len(t.v.HMetrics) + 2 * t.v.LeftSideBearings.len
      [] t.type = "Cvt"  -> 2 * Len(t.v.Values)
      [] t.type = "Loca" -> IF IsShort(t.v) THEN 2 * LocaLen(t.v) ELSE 4 * LocaLen(t.v)
      [] t.type = "Glyf" -> GlyfLength(t.v.data, Len(t.v.data))

\* The records of HMetrics before the first nil one.
HMetricsWritten(h) ==
    LET nils == {i \in DOMAIN h.HMetrics : h.HMetrics[i] = Nil}
    IN  IF nils = {} THEN Len(h.HMetrics)
        ELSE (CHOOSE i \in nils : \A j \in nils : i <= j) - 1

\* A sink that takes every write, as the buffer of simpleCheckSum does.  Any
\* other sink is the number of writes it takes before one fails.
Buffer == -1

\* An errWriter: the sink (left is the number of writes it still takes), the
\* bytes and the calls that reached it, and the error the writer holds, after
\* which it writes nothing.
newErrWriter(sink) == [n |-> 0, calls |-> 0, left |-> sink, err |-> ""]

\* k calls of errWriter.write or writeBin in a row, each with data of `each`
\* bytes.  Data that binary.Write cannot encode (a nil record, ok = FALSE)
\* sets the error before the sink is reached; a call the sink refuses is the
\* last one that reaches it.
Run(k, each, ok) == [k |-> k, each |-> each, ok |-> ok]

writeRunUnguarded(w, run) ==
    IF run.k = 0 THEN w
    ELSE IF ~run.ok THEN [w EXCEPT !.err = "panic"]
    ELSE IF w.left < 0 \/ w.left >= run.k
    THEN [w EXCEPT !.n = @ + run.k * run.each, !.calls = @ + run.k,
                   !.left = IF @ < 0 THEN @ ELSE @ - run.k]
    ELSE [w EXCEPT !.n = @ + w.left * run.each, !.calls = @ + run.k,
                   !.left = 0, !.err = IF w.err = "" THEN "sink" ELSE w.err]

writeRun(w, run) ==
    IF w.err # "" \/ run.k = 0 THEN w
    ELSE IF ~run.ok THEN [w EXCEPT !.err = "panic"]
    ELSE IF w.left < 0 \/ w.left >= run.k
    THEN [w EXCEPT !.n = @ + run.k * run.each, !.calls = @ + run.k,
                   !.left = IF @ < 0 THEN @ ELSE @ - run.k]
    ELSE [w EXCEPT !.n = @ + w.left * run.each, !.calls = @ + w.left + 1,
                   !.left = 0, !.err = "sink"]

RECURSIVE writeRuns(_, _, _)
writeRuns(w, runs, i) ==
    IF i > Len(runs) THEN w
    ELSE CHOOSE out \in {writeRuns(w2, runs, i + 1) : w2 \in {writeRun(w, runs[i])}} : TRUE

\* The writes of Name.store before padSpace: the header, six fields per
\* record, the language tags of format 1, then the strings: one writeBin per
\* Macintosh string, one write per UTF-16 unit of another.
NameWrites(n) ==
    << Run(3, 2, TRUE), Run(6 * n.NameRecords.len, 2, TRUE) >>
    \o (IF n.Format = 1 THEN <<Run(1 + 2 * Len(n.LangTagRecords), 2, TRUE)>> ELSE <<>>)
    \o (IF n.NameRecords.each.PlatformID = PlatformIDMacintosh
        THEN <<Run(n.NameRecords.len, Len(n.NameRecords.each.Value), TRUE)>>
        ELSE <<Run(n.NameRecords.len * Len(n.NameRecords.each.Value), 2, TRUE)>>)

\* The writes of t.store before padSpace.  Maxp.Store writes the whole struct,
\* whatever the version.
storeBody(t) ==
    CASE t.type = "Head" -> <<Run(1, HeadLength, TRUE)>>
      [] t.type = "Name" -> NameWrites(t.v)
      [] t.type = "Maxp" -> <<Run(1, MaxpSize, TRUE)>>
      [] t.type = "Hmtx" ->
            << Run(HMetricsWritten(t.v), 4, TRUE),
               Run(Len(t.v.HMetrics) - HMetricsWritten(t.v), 4, FALSE),
               Run(t.v.LeftSideBearings.len, 2, TRUE) >>
      [] t.type = "Cvt"  -> <<Run(Len(t.v.Values), 2, TRUE)>>
      [] t.type = "Loca" -> <<Run(LocaLen(t.v), IF IsShort(t.v) THEN 2 ELSE 4, TRUE)>>
      [] t.type = "Glyf" -> [i \in DOMAIN t.v.data |-> Run(1, Len(t.v.data[i]), TRUE)]

\* padSpace(w, length) writes padLength(length) - length zero bytes.
padSpace(length) == padLength(length) - length

\* t.store(w): the table, then the padding of its Length.
store(w, t) == writeRuns(w, storeBody(t) \o <<Run(1, padSpace(Length(t)), TRUE)>>, 1)

\* t.CheckSum(), of every table through simpleCheckSum(t): the table is stored
\* in a buffer and padBlocks(t.Length()) words are read back from it.
CheckSum(t) ==
    CHOOSE out \in { IF b.err # "" THEN b.err
                     ELSE IF b.n >= padLength(Length(t)) THEN ""
                     ELSE IF b.n = 0 THEN "EOF" ELSE "unexpected EOF" :
                     b \in {store(newErrWriter(Buffer), t)} } : TRUE

\* createTableRecord(t, offset)
createTableRecord(t, offset) ==
    CHOOSE out \in { [ tr  |-> IF err = "" THEN [Tag |-> Tag(t), Offset |-> offset,
                                                   Length |-> Length(t)]
                               ELSE Nil,
                       err |-> err ] : err \in {CheckSum(t)} } : TRUE

\* The first loop of Build from table i: the records made so far, the running
\* offset, and the way the loop ends.  CheckSum of a nil pointer dereferences it.
RECURSIVE createTableRecords(_, _, _, _)
createTableRecords(tables, i, offset, trs) ==
    IF i > Len(tables) THEN [trs |-> trs, outcome |-> "ok", tag |-> ""]
    ELSE IF tables[i].nilPointer THEN [trs |-> trs, outcome |-> "panic", tag |-> Tag(tables[i])]
    ELSE CHOOSE out \in
           { IF r.err # "" THEN [trs |-> trs, outcome |-> "error", tag |-> Tag(tables[i])]
             ELSE createTableRecords(tables, i + 1, offset + padLength(r.tr.Length),
                                     Append(trs, r.tr)) :
             r \in {createTableRecord(tables[i], offset)} } : TRUE

\* The record the map tableRecords holds under the tag.
recordOfTag(trs, tag) == trs[CHOOSE i \in DOMAIN trs : trs[i].Tag = tag]

\* The stream with the chunk of one value written: its kind and tag, the stream
\* position pos of its first byte, the n bytes of it that reached the sink.  A
\* value none of whose writes reached the sink leaves no chunk.
chunk(s, w2, c) ==
    [ w      |-> w2,
      chunks |-> IF w2.calls = s.w.calls THEN s.chunks
                 ELSE Append(s.chunks, [kind |-> c.kind, tag |-> c.tag, tr |-> c.tr,
                                        pos |-> s.w.n, n |-> w2.n - s.w.n]) ]

\* The second loop of Build from table i: the record of every table, in the
\* order of b.tables.
RECURSIVE writeRecords(_, _, _, _)
writeRecords(tables, trs, i, s) ==
    IF i > Len(tables) THEN s
    ELSE CHOOSE out \in
           { writeRecords(tables, trs, i + 1,
                 chunk(s, w2, [kind |-> "TableRecord", tag |-> Tag(tables[i]),
                               tr |-> recordOfTag(trs, Tag(tables[i]))])) :
             w2 \in {writeRun(s.w, Run(1, TableRecordLength, TRUE))} } : TRUE

\* The last loop of Build from table i: t.store(w) in the order of b.tables.
RECURSIVE storeTables(_, _, _)
storeTables(tables, i, s) ==
    IF i > Len(tables) THEN s
    ELSE CHOOSE out \in
           { storeTables(tables, i + 1,
                 chunk(s, w2, [kind |-> "Table", tag |-> Tag(tables[i]), tr |-> Nil])) :
             w2 \in {store(s.w, tables[i])} } : TRUE

\* Builder.WithTable(t) on the tables of a builder: the loop asks every table
\* and t for their tags, which panics for the nil interface.
WithTableAppended(tables, t) ==
    IF tables # <<>> /\ t = NilInterface THEN [tables |-> tables, outcome |-> "panic"]
    ELSE [ tables  |-> IF t # NilInterface THEN Append(tables, t) ELSE tables,
           outcome |-> "ok" ]

WithTableOf(tables, t) ==
    IF tables # <<>> /\ t = NilInterface THEN [tables |-> tables, outcome |-> "panic"]
    ELSE LET kept == SelectSeq(tables, LAMBDA cur : Tag(cur) # Tag(t))
         IN  [ tables  |-> IF t # NilInterface THEN Append(kept, t) ELSE kept,
               outcome |-> "ok" ]

\* Builder.WithTables(ts) from table i of ts.
RECURSIVE WithTablesOf(_, _, _)
WithTablesOf(tables, ts, i) ==
    IF i > Len(ts) THEN [tables |-> tables, outcome |-> "ok"]
    ELSE CHOOSE out \in
           { IF r.outcome = "panic" THEN r ELSE WithTablesOf(r.tables, ts, i + 1) :
             r \in {WithTableOf(tables, ts[i])} } : TRUE

\* The writes of Build once the records are made: the offset table, the
\* records, the tables; then w.errorf.
writeFont(tables, trs, sink) ==
    CHOOSE out \in
      { [ outcome |-> IF s.w.err # "" THEN "error" ELSE "ok", tag |-> "",
          err |-> s.w.err, calls |-> s.w.calls, stream |-> s.chunks ] :
        s \in { storeTables(tables, 1,
                  writeRecords(tables, trs, 1,
                      CHOOSE s1 \in
                        { chunk([w |-> newErrWriter(sink), chunks |-> <<>>], w1,
                                [kind |-> "OffsetTable", tag |-> "", tr |-> Nil]) :
                          w1 \in {writeRun(newErrWriter(sink),
                                           Run(1, OffsetTableLength, TRUE))} } : TRUE)) } } : TRUE

\* Builder.Build on the tables of a builder, with a writer over the sink: the
\* outcome, the stream, and the error and the calls of the errWriter.
BuildOf(tables, sink) ==
    CHOOSE out \in
      { IF c.outcome # "ok"
        THEN [ outcome |-> c.outcome, tag |-> c.tag, err |-> "", calls |-> 0,
               stream |-> <<>> ]
        ELSE writeFont(tables, c.trs, sink) :
        c \in { createTableRecords(tables, 1,
                    OffsetTableLength + TableRecordLength * Len(tables), <<>>) } } : TRUE

\* The Name parseName reads from a name table of format 0 with count records
\* of the given platform and string length: a Macintosh string holds length
\* bytes, another one length / 2 UTF-16 units.
parsedName(count, platform, length) ==
    [ Format |-> 0, Count |-> count, LangTagCount |-> 0, LangTagRecords |-> <<>>,
      NameRecords |->
        [ len  |-> count,
          each |-> [ PlatformID |-> platform, Length |-> length,
                     Value |-> [k \in 1..(IF platform = PlatformIDMacintosh
                                          THEN length ELSE length \div 2) |-> 65] ] ] ]

\* The tables handed to the builder: tables as the parsers return them, nil
\* pointers of table types, and the nil interface.
BuildTables ==
    {Pointer("Head", [IndexToLocFormat |-> 0, CheckSumAdjustment |-> 0])}
    \cup {Pointer("Name", parsedName(1, p, l)) :
             p \in {PlatformIDMacintosh, PlatformIDWindows}, l \in 1..MaxNameLength}
    \cup {Pointer("Name", parsedName(MaxNameCount, PlatformIDMacintosh, 0))}
    \cup {Pointer("Cvt", [Values |-> [i \in 1..n |-> 0]]) : n \in 0..MaxCvtValues}
    \cup {Pointer("Hmtx", [ HMetrics |-> <<hm>>,
                            LeftSideBearings |-> [len |-> 0, kept |-> <<>>] ]) :
             hm \in {[AdvanceWidth |-> 1, Lsb |-> 0], Nil}}
    \cup {Pointer("Loca", [indexToLocFormat |-> 0, offsetsShort |-> <<0, 1>>,
                           offsetsLong |-> <<>>])}
    \cup {Pointer("Glyf", [data |-> <<<<0, 0>>>>])}
    \cup {Pointer("Maxp", [Version |-> v, NumGlyphs |-> 1]) : v \in {MaxpVersion05, 65536}}
    \cup {NilPointer("Cvt"), NilInterface}

\* The lists handed to WithTables.
BuildLists ==
    {<<t1, t2>> : t1, t2 \in {t \in BuildTables : t.type \in {"Head", "Cvt", "nil"}}}

InitBuild == InitWith({Nil})

\* b.WithTable(t)
WithTable(t) ==
    /\ last.outcome # "panic"
    /\ \E r \in {WithTableOf(builder, t)} :
           /\ Len(r.tables) <= MaxTables
           /\ builder' = r.tables
           /\ last' = [op |-> "WithTable", outcome |-> r.outcome, t |-> t, pre |-> builder]
    /\ UNCHANGED <<file, fonts, heads, hheas, maxps>>

\* b.WithTables(ts)
WithTables(ts) ==
    /\ last.outcome # "panic"
    /\ \E r \in {WithTablesOf(builder, ts, 1)} :
           /\ Len(r.tables) <= MaxTables
           /\ builder' = r.tables
           /\ last' = [op |-> "WithTables", outcome |-> r.outcome, ts |-> ts, pre |-> builder]
    /\ UNCHANGED <<file, fonts, heads, hheas, maxps>>

\* The sinks Build writes to: one that takes every write, and those that fail
\* after some writes.
Sinks == {Buffer} \cup 0..MaxSinkWrites

\* b.Build(writer) with a writer over the sink.
Build(sink) ==
    /\ last.outcome # "panic"
    /\ \E r \in {BuildOf(builder, sink)} :
           last' = [ op |-> "Build", outcome |-> r.outcome, tag |-> r.tag,
                     sink |-> sink, err |-> r.err, calls |-> r.calls,
                     stream |-> r.stream ]
    /\ UNCHANGED <<file, fonts, heads, hheas, maxps, builder>>

\* b.tables[i].store(w) with a writer over a buffer; a nil pointer is
\* dereferenced.
Store(i) ==
    /\ last.outcome # "panic"
    /\ i \in DOMAIN builder
    /\ \E w \in { IF builder[i].nilPointer THEN [n |-> 0, err |-> "nil"]
                   ELSE store(newErrWriter(Buffer), builder[i]) } :
           last' = [ op |-> "store", t |-> builder[i], n |-> w.n,
                     outcome |-> IF w.err = "" THEN "ok"
                                 ELSE IF w.err = "nil" THEN "panic" ELSE "error" ]
    /\ UNCHANGED <<file, fonts, heads, hheas, maxps, builder>>

NextBuild ==
    \/ \E t \in BuildTables : WithTable(t)
    \/ \E ts \in BuildLists : WithTables(ts)
    \/ \E sink \in Sinks : Build(sink)
    \/ \E i \in 1..MaxTables : Store(i)

SpecBuild == InitBuild /\ [][NextBuild]_vars

\* --------------------------------------------------- building a parsed font

\* The file NewBuilder().WithTables(font.Tables()).Build(w) writes, by the
\* fields of the file model.  CheckSum dereferences a nil pointer of the list;
\* the write of a nil record of hmtx fails.  The tables are stored as they were
\* parsed: the glyf slices one after the other, the hmtx records, then the
\* bearings.  The head record carries the checksum of the head table.
buildFile(font, hs, hhs, ms) ==
    LET tables == Tables(font)
    IN  IF \E k \in DOMAIN tables : tables[k].nilPointer
        THEN [outcome |-> "panic", file |-> Nil]
        ELSE IF HMetricsWritten(font.Hmtx) < Len(font.Hmtx.HMetrics)
        THEN [outcome |-> "error", file |-> Nil]
        ELSE [ outcome |-> "ok",
               file |->
                 [ sfntVersion        |-> "TrueTypeOpenType",
                   tags               |-> {Tag(tables[k]) : k \in DOMAIN tables},
                   numGlyphs          |-> ms[font.Maxp].NumGlyphs,
                   numberOfHMetrics   |-> hhs[font.Hhea].NumberOfHMetrics,
                   indexToLocFormat   |-> hs[font.Head].IndexToLocFormat,
                   loca               |-> IF IsShort(font.Loca) THEN font.Loca.offsetsShort
                                          ELSE font.Loca.offsetsLong,
                   glyfLength         |-> GlyfLength(font.Glyf.data, Len(font.Glyf.data)),
                   hmtxWords          |-> 2 * Len(font.Hmtx.HMetrics)
                                            + font.Hmtx.LeftSideBearings.len,
                   badSums            |-> {},
                   checkSumAdjustment |-> hs[font.Head].CheckSumAdjustment,
                   headCheckSum       |-> HeadCheckSum(hs[font.Head]) ] ]

\* The files of the round trip: the regular TrueType files and a CFF file,
\* with sound checksums, with all their tables or without some of the optional
\* ones, and with either value of checkSumAdjustment.
RoundFiles ==
    ChainFiles \cup {f \in Files : /\ f.sfntVersion = "CFFOpenType"
                                   /\ f.tags = TableTags
                                   /\ f.numGlyphs = 1 /\ f.numberOfHMetrics = 1}

RoundTagSets ==
    {TableTags \ d : d \in SUBSET {"cmap", "cvt ", "prep"}}

InitRound ==
    InitWith({ [f EXCEPT !.tags = tags, !.checkSumAdjustment = adj] :
                 f \in RoundFiles, tags \in RoundTagSets, adj \in {0, 1} })

\* NewBuilder().WithTables(fonts[i].Tables()).Build(w) on a font that parsed
\* without error, w writing the file that is parsed next.
BuildFont(i) ==
    /\ i \in DOMAIN fonts
    /\ last.op = "ParseFont" /\ last.outcome = "ok"
    /\ \E r \in {buildFile(fonts[i], heads, hheas, maxps)} :
           /\ file' = IF r.outcome = "ok" THEN r.file ELSE file
           /\ last' = [op |-> "BuildFont", outcome |-> r.outcome, src |-> i]
    /\ UNCHANGED <<fonts, heads, hheas, maxps, builder>>

\* ParseFont(file) on the file built.
ParseBuilt ==
    /\ last.op = "BuildFont" /\ last.outcome = "ok"
    /\ \E verr \in parseTableRecord(file) :
       \E r \in {parseFont(file, heads, hheas, maxps, verr)} :
           /\ fonts' = IF r.hasFont THEN Append(fonts, r.st.font) ELSE fonts
           /\ heads' = IF r.hasFont THEN r.st.heads ELSE heads
           /\ hheas' = IF r.hasFont THEN r.st.hheas ELSE hheas
           /\ maxps' = IF r.hasFont THEN r.st.maxps ELSE maxps
           /\ last' = [ op |-> "ParseBuilt", outcome |-> r.outcome, errs |-> r.errs,
                        src |-> last.src ]
    /\ UNCHANGED <<file, builder>>

NextRound ==
    \/ ParseFont
    \/ BuildFont(1)
    \/ ParseBuilt

SpecRound == InitRound /\ [][NextRound]_vars

\* ------------------------------------------------- the builder of a font

\* NewBuilder(font).Build(w) of builder.go: the builder holds the pointers of
\* the font.  Build writes 0 to CheckSumAdjustment through the head pointer,
\* which panics on a nil one, and does not write the old value back.
zeroCheckSumAdjustment(hs, font) == [hs EXCEPT ![font.Head].CheckSumAdjustment = 0]

\* Then the table records are created in the fixed order of the ten tables
\* and the font is written: the outcome is that of the records and the stores.
BuildFromFont(i) ==
    /\ i \in DOMAIN fonts
    /\ last.op = "ParseFont"
    /\ \E pre \in {[ tables |-> FontView(fonts[i], heads, hheas, maxps),
                     checkSumAdjustment |->
                         IF fonts[i].Head = 0 THEN -1
                         ELSE heads[fonts[i].Head].CheckSumAdjustment ]} :
           IF fonts[i].Head = 0
           THEN /\ last' = [op |-> "Build", outcome |-> "panic", src |-> i, pre |-> pre]
                /\ UNCHANGED heads
           ELSE \E hs \in {zeroCheckSumAdjustment(heads, fonts[i])} :
                \E r \in {buildFile(fonts[i], hs, hheas, maxps)} :
                    /\ heads' = hs
                    /\ last' = [op |-> "Build", outcome |-> r.outcome, src |-> i,
                                pre |-> pre]
    /\ UNCHANGED <<file, fonts, hheas, maxps, builder>>

NextFontBuilder ==
    \/ ParseFont
    \/ BuildFromFont(1)

SpecFontBuilder == InitRound /\ [][NextFontBuilder]_vars

\* ------------------------------------------------------- the offset table

\* 1 << k in uint16.
Shl16(k) == IF k >= 16 THEN 0 ELSE Uint16(2^k)

\* The numbers of tables an offset table is created for: the small ones, and
\* those around the powers of two where 16-bit products wrap.
NumTablesValues == (0..MaxNumTables) \cup {2^12 - 1, 2^12, 2^13 + 1, 2^15 - 1, 2^15}

InitOffsetTable == InitWith({Nil})

\* createOffsetTable(sfntVersion, numTables) up to the loop of refreshField.
CreateOffsetTable(numTables) ==
    /\ last.op = "none"
    /\ last' = [ op |-> "createOffsetTable", outcome |-> "running",
                 ot |-> [ SfntVersion |-> "TrueTypeOpenType", NumTables |-> numTables,
                          SearchRange |-> 0, EntrySelector |-> 0, RangeShift |-> 0 ],
                 es |-> 0, sr |-> 1 ]
    /\ UNCHANGED <<file, fonts, heads, hheas, maxps, builder>>

\* One turn of the loop of refreshField.
RefreshLoop ==
    /\ last.op = "createOffsetTable" /\ last.outcome = "running"
    /\ ~(Shl16(Uint16(last.es + 1)) > last.ot.NumTables)
    /\ last' = [last EXCEPT !.es = Uint16(@ + 1), !.sr = Uint16(@ * 2)]
    /\ UNCHANGED <<file, fonts, heads, hheas, maxps, builder>>

\* The break of the loop, the three assignments, and the return.
RefreshField ==
    /\ last.op = "createOffsetTable" /\ last.outcome = "running"
    /\ Shl16(Uint16(last.es + 1)) > last.ot.NumTables
    /\ last' = [last EXCEPT !.outcome = "ok",
                            !.ot.SearchRange   = Uint16(last.sr * 16),
                            !.ot.EntrySelector = last.es,
                            !.ot.RangeShift    =
                                Uint16(last.ot.NumTables * 16 - Uint16(last.sr * 16))]
    /\ UNCHANGED <<file, fonts, heads, hheas, maxps, builder>>

NextOffsetTable ==
    \/ \E numTables \in NumTablesValues : CreateOffsetTable(numTables)
    \/ RefreshLoop
    \/ RefreshField

SpecOffsetTable == InitOffsetTable /\ [][NextOffsetTable]_vars

\* ------------------------------------------------------- cmap format 4

\* The files of parseEncodingRecordSubtableFormat4 once the arrays are read:
\* segCount segments, then the glyph index array up to the end of the file.
\* A segment starts at the low or at the high end of the 16 bits and holds up
\* to MaxSegmentCodes codes, the end code taken around 16 bits (no code for a
\* start code past the end code).
Segments ==
    { [ StartCount |-> start, EndCount |-> Uint16(start + n - 1), IDDelta |-> d,
        IDRangeOffset |-> o ] :
        start \in {0, MaxUint16 - 1, MaxUint16}, n \in 0..MaxSegmentCodes,
        d \in {-(2^15), -1, 2}, o \in {0, 2} }

GlyphIDArrays(n) == {[k \in 1..n |-> v] : v \in {0, 1}}

Format4(segs, glyphs) ==
    [ SegCount      |-> Len(segs),
      EndCount      |-> [k \in DOMAIN segs |-> segs[k].EndCount],
      StartCount    |-> [k \in DOMAIN segs |-> segs[k].StartCount],
      IDDelta       |-> [k \in DOMAIN segs |-> segs[k].IDDelta],
      IDRangeOffset |-> [k \in DOMAIN segs |-> segs[k].IDRangeOffset],
      GlyphIDArray  |-> glyphs ]

Format4Files(segCount) ==
    { Format4(segs, glyphs) :
        segs \in [1..segCount -> Segments],
        glyphs \in UNION {GlyphIDArrays(n) : n \in 0..MaxGlyphIDs} }

\* The test that ends the loop over the segments.
IsLastSegmentNever(endCount) == FALSE

IsLastSegment(endCount) == endCount = MaxUint16

\* getGID of a segment without range offset: the sum in 32 bits, cut to 16.
deltaGIDNoWrap(c, idDelta) == IF c + idDelta < 0 THEN 0 ELSE Uint16(c + idDelta)

deltaGID(c, idDelta) == Uint16(c + idDelta)

\* The word binary.Read gets at pos = IDRangeOffset[i] + 2 * (c - StartCount[i])
\* + IDRangeOffsetAddress[i]: the words from the address of IDRangeOffset[0]
\* on are the range offsets, then the glyph index array, then the file ends.
\* i counts from 0 as in the code.
wordAt(st, i, c) ==
    LET k == st.IDRangeOffset[i + 1] \div 2 + (c - st.StartCount[i + 1]) + i
    IN  IF k < st.SegCount THEN [err |-> "", C |-> st.IDRangeOffset[k + 1]]
        ELSE IF k - st.SegCount < Len(st.GlyphIDArray)
        THEN [err |-> "", C |-> st.GlyphIDArray[k - st.SegCount + 1]]
        ELSE [err |-> "EOF", C |-> 0]

\* st.getGID(f, i, c)
getGID(st, i, c) ==
    IF st.IDRangeOffset[i + 1] = 0
    THEN [gid |-> deltaGID(c, st.IDDelta[i + 1]), err |-> ""]
    ELSE CHOOSE out \in
           { IF r.err # "" THEN [gid |-> 0, err |-> r.err]
             ELSE IF r.C = 0 THEN [gid |-> 0, err |-> ""]
             ELSE [gid |-> Uint16(r.C + st.IDDelta[i + 1]), err |-> ""] :
             r \in {wordAt(st, i, c)} } : TRUE

InitCMap == InitWith(UNION {Format4Files(n) : n \in 1..MaxSegCount})

\* st.createCMap(f) up to the loop over the segments.
CreateCMap ==
    /\ last.op = "none"
    /\ last' = [ op |-> "createCMap", outcome |-> "running", i |-> 0,
                 inner |-> FALSE, c |-> 0, cmap |-> [x \in {} |-> 0] ]
    /\ UNCHANGED <<file, fonts, heads, hheas, maxps, builder>>

\* The head of the loop over the segments: the return after the last segment,
\* the break, or the start of the loop over the codes of segment i.
SegmentLoop ==
    /\ last.op = "createCMap" /\ last.outcome = "running" /\ ~last.inner
    /\ last' = IF ~(last.i < file.SegCount) THEN [last EXCEPT !.outcome = "ok"]
               ELSE IF IsLastSegment(file.EndCount[last.i + 1])
               THEN [last EXCEPT !.outcome = "ok"]
               ELSE [last EXCEPT !.inner = TRUE, !.c = file.StartCount[last.i + 1]]
    /\ UNCHANGED <<file, fonts, heads, hheas, maxps, builder>>

\* One turn of the loop over the codes: the glyph of c is put into the map
\* also when getGID fails, and c++ is in 16 bits; or the loop ends and i++.
CodeLoop ==
    /\ last.op = "createCMap" /\ last.outcome = "running" /\ last.inner
    /\ IF last.c <= file.EndCount[last.i + 1]
       THEN \E r \in {getGID(file, last.i, last.c)} :
              last' = [last EXCEPT
                         !.cmap = [x \in DOMAIN @ \cup {last.c} |->
                                      IF x = last.c THEN r.gid ELSE @[x]],
                         !.outcome = IF r.err # "" THEN "error" ELSE @,
                         !.c = IF r.err # "" THEN @ ELSE Uint16(@ + 1)]
       ELSE last' = [last EXCEPT !.inner = FALSE, !.i = Uint16(@ + 1)]
    /\ UNCHANGED <<file, fonts, heads, hheas, maxps, builder>>

NextCMap ==
    \/ CreateCMap
    \/ SegmentLoop
    \/ CodeLoop

SpecCMap == InitCMap /\ [][NextCMap]_vars

\* The loops run on as long as they have a turn to take.
SpecCMapLive == SpecCMap /\ WF_vars(NextCMap)

\* ------------------------------------------------- the strings of a name table

\* The name tables of format 0 as they lie in a file: count records with
\* their platform, length and offset, stringOffset at the end of the records
\* or one byte on, and a storage area of MaxStorage different bytes.
NameFiles(count) ==
    { [ Format |-> 0, Count |-> count, StringOffset |-> 6 + 12 * count + gap,
        NameRecords |-> nrs, storage |-> [k \in 1..MaxStorage |-> 64 + k] ] :
        gap \in {0, 1},
        nrs \in [1..count -> [ PlatformID : {PlatformIDMacintosh, PlatformIDWindows},
                               Length : 0..MaxStorage, Offset : 0..MaxStorage ]] }

\* parseNameRecords from the second loop on: the string of every record is
\* read at storageOffset + Offset, Length bytes of a Macintosh record and
\* Length / 2 units of UTF-16 of another one (a unit of a surrogate decodes to
\* U+FFFD); a read of one byte or more past the end of the file fails.
parseNameRecords(f) ==
    LET read(nr) == IF nr.PlatformID = PlatformIDMacintosh THEN nr.Length
                    ELSE 2 * (nr.Length \div 2)
        unit(nr, k) == 256 * f.storage[nr.Offset + 2 * k - 1] + f.storage[nr.Offset + 2 * k]
        value(nr) == IF nr.PlatformID = PlatformIDMacintosh
                     THEN SubSeq(f.storage, nr.Offset + 1, nr.Offset + nr.Length)
                     ELSE [k \in 1..(nr.Length \div 2) |->
                              IF unit(nr, k) \in 55296..57343 THEN 65533 ELSE unit(nr, k)]
        failed == {k \in DOMAIN f.NameRecords :
                      /\ read(f.NameRecords[k]) > 0
                      /\ f.NameRecords[k].Offset + read(f.NameRecords[k]) > Len(f.storage)}
    IN  IF failed # {} THEN [err |-> "EOF", nrs |-> <<>>]
        ELSE [ err |-> "",
               nrs |-> [k \in DOMAIN f.NameRecords |->
                           [ PlatformID |-> f.NameRecords[k].PlatformID,
                             Length     |-> f.NameRecords[k].Length,
                             Offset     |-> f.NameRecords[k].Offset,
                             Value      |-> value(f.NameRecords[k]) ]] ]

\* The bytes Name.store writes for the string of a record: the bytes of a
\* Macintosh string, the units of UTF-16 of another one, high byte first.
valueBytes(nr) ==
    IF nr.PlatformID = PlatformIDMacintosh THEN nr.Value
    ELSE [k \in 1..(2 * Len(nr.Value)) |->
             IF k % 2 = 1 THEN nr.Value[(k + 1) \div 2] \div 256
             ELSE nr.Value[k \div 2] % 256]

\* The last loop of Name.store from record i: the strings one after the
\* other, in the order of the records.
RECURSIVE NameStrings(_, _)
NameStrings(nrs, i) ==
    IF i > Len(nrs) THEN <<>> ELSE valueBytes(nrs[i]) \o NameStrings(nrs, i + 1)

InitName == InitWith(UNION {NameFiles(count) : count \in 1..MaxNameRecords})

\* parseName(f, offset, checkSum) on a table of format 0.
ParseName ==
    /\ last.op = "none"
    /\ \E r \in {parseNameRecords(file)} :
           last' = [ op |-> "parseName",
                     outcome |-> IF r.err = "" THEN "ok" ELSE "error",
                     n |-> [ Format |-> file.Format, Count |-> file.Count,
                             StringOffset |-> file.StringOffset,
                             NameRecords |-> r.nrs ] ]
    /\ UNCHANGED <<file, fonts, heads, hheas, maxps, builder>>

\* n.store(w) on the parsed table, into a buffer: Format, Count, StringOffset
\* and the fields of the records are written as they were read, then the
\* strings.
StoreName ==
    /\ last.op = "parseName" /\ last.outcome = "ok"
    /\ last' = [ op |-> "Name.store", outcome |-> "ok", n |-> last.n,
                 header  |-> 6 + 12 * Len(last.n.NameRecords),
                 strings |-> NameStrings(last.n.NameRecords, 1) ]
    /\ UNCHANGED <<file, fonts, heads, hheas, maxps, builder>>

NextName ==
    \/ ParseName
    \/ StoreName

SpecName == InitName /\ [][NextName]_vars

\* ------------------------------------------------------- claims: FilterGlyf

\* The last call was a FilterGlyf that returned a Font, which is the newest font.
FilterOk == last.op = "FilterGlyf" /\ last.outcome = "ok"

ResultView == View(Len(fonts))

\* The index list the subset is specified by: F, with F[0] in front unless it is 0.
SpecIndex(F) == IF F[1] = 0 THEN F ELSE <<F[1]>> \o F

\* C1: FilterGlyf leaves the source font unchanged: after the call returns, with
\* a result or an error, the source's maxp.numGlyphs, hhea.numberOfHMetrics,
\* head.indexToLocFormat, glyf, loca and hmtx are what they were before the call.
C1_SourceUnchanged ==
    last.op = "FilterGlyf" => View(last.src) = last.pre

\* C2: a non-empty filter holding a glyph ID >= maxp.numGlyphs makes FilterGlyf
\* return an error (no Font, no crash), for every glyph count, 0 included.
C2_OutOfRangeIsError ==
    ( /\ last.op = "FilterGlyf"
      /\ last.filter # <<>>
      /\ \E i \in DOMAIN last.filter : last.filter[i] >= last.pre.numGlyphs )
    => last.outcome = "error"

C4_MissingGlyphFirst ==
    FilterOk => ResultView.Glyf.data[1] = last.pre.Glyf.data[1]

\* C5: the loca of the Font FilterGlyf returns is in long format with
\* head.indexToLocFormat = 1, has one entry more than the result has slices,
\* starts at 0, grows by each slice's byte length, and ends at the total length.
C5_ResultLoca ==
    FilterOk =>
        LET l    == ResultView.Loca
            data == ResultView.Glyf.data
        IN  /\ ~IsShort(l)
            /\ l.indexToLocFormat = 1
            /\ l.offsetsShort = <<>>
            /\ ResultView.indexToLocFormat = 1
            /\ LocaLen(l) = Len(data) + 1
            /\ LocaGet(l, 0) = 0
            /\ \A i \in 1..Len(data) : LocaGet(l, i) = LocaGet(l, i - 1) + Len(data[i])
            /\ LocaGet(l, Len(data)) = runningOffset(data, Len(data))

\* C5 witness: a font parsed with a short loca was subset, and the result has
\* slices of different lengths.
C5_Witness ==
    /\ FilterOk
    /\ last.pre.indexToLocFormat = 0
    /\ IsShort(last.pre.Loca)
    /\ \E i, j \in DOMAIN ResultView.Glyf.data :
           Len(ResultView.Glyf.data[i]) > Len(ResultView.Glyf.data[j])

\* The cross-table counts of a font agree: paired records = numberOfHMetrics,
\* paired records + left side bearings = numGlyphs = glyf slices.
Coherent(v) ==
    /\ Len(v.Hmtx.HMetrics) = v.numberOfHMetrics
    /\ Len(v.Hmtx.HMetrics) + v.Hmtx.LeftSideBearings.len = v.numGlyphs
    /\ v.numGlyphs = Len(v.Glyf.data)

C7_ResultHasPairedRecord ==
    (FilterOk /\ last.pre.numberOfHMetrics >= 1) => ResultView.numberOfHMetrics >= 1

\* How often x occurs in the sequence s.
Count(s, x) == Cardinality({i \in DOMAIN s : s[i] = x})

\* The filter [0, 1, ..., n-1].
IdentityFilter(n) == [i \in 1..n |-> i - 1]

\* C8: FilterGlyf([0, ..., N-1]) on a parsed font of N glyphs returns a font
\* equal to it in glyf, loca, head.indexToLocFormat, maxp.numGlyphs,
\* hhea.numberOfHMetrics and hmtx, up to the order of hmtx.hMetrics.
C8_IdentitySubset ==
    ( /\ last.op = "FilterGlyf"
      /\ last.src = 1
      /\ last.pre.numGlyphs >= 1
      /\ last.filter = IdentityFilter(last.pre.numGlyphs) )
    => /\ last.outcome = "ok"
       /\ ResultView.Glyf = last.pre.Glyf
       /\ ResultView.Loca = last.pre.Loca
       /\ ResultView.indexToLocFormat = last.pre.indexToLocFormat
       /\ ResultView.numGlyphs = last.pre.numGlyphs
       /\ ResultView.numberOfHMetrics = last.pre.numberOfHMetrics
       /\ ResultView.Hmtx.LeftSideBearings = last.pre.Hmtx.LeftSideBearings
       /\ \A m \in {ResultView.Hmtx.HMetrics[i] : i \in DOMAIN ResultView.Hmtx.HMetrics}
                   \cup {last.pre.Hmtx.HMetrics[i] : i \in DOMAIN last.pre.Hmtx.HMetrics} :
              Count(ResultView.Hmtx.HMetrics, m) = Count(last.pre.Hmtx.HMetrics, m)

\* ---------------------------------------------------------- claims: parsing

\* ParseFont has just returned the font with a nil error.
ParsedOk == last.op = "ParseFont" /\ last.outcome = "ok"

\* The bytes [a, b) of the file's glyf region.
GlyfBytes(a, b) == [k \in 1..(b - a) |-> GlyfByte(file, a + k - 1)]

\* C9: a font parsed with a glyf table holds maxp.numGlyphs slices, slice i
\* being the bytes [loca.get(i), loca.get(i+1)) of the glyf region.
C9_GlyfSlices ==
    (ParsedOk /\ fonts[1].Glyf # Nil) =>
        LET v == View(1)
        IN  /\ Len(v.Glyf.data) = v.numGlyphs
            /\ \A i \in 0..(v.numGlyphs - 1) :
                   v.Glyf.data[i + 1] = GlyfBytes(LocaGet(v.Loca, i), LocaGet(v.Loca, i + 1))

\* C10: a font parsed with a loca table has maxp.numGlyphs + 1 loca entries,
\* for every maxp.numGlyphs up to 65535.
C10_LocaEntries ==
    (ParsedOk /\ fonts[1].Loca # Nil) => LocaLen(View(1).Loca) = View(1).numGlyphs + 1

\* C11: a font ParseFont returns without error has as many paired hmtx records
\* as hhea.numberOfHMetrics says, and paired records plus left side bearings are
\* maxp.numGlyphs, also when the file's numberOfHMetrics exceeds its numGlyphs.
C11_HmtxCounts ==
    (ParsedOk /\ fonts[1].Hmtx # Nil) =>
        LET v == View(1)
        IN  /\ Len(v.Hmtx.HMetrics) = v.numberOfHMetrics
            /\ Len(v.Hmtx.HMetrics) + v.Hmtx.LeftSideBearings.len = v.numGlyphs

\* ------------------------------------------------------- claims: checksums

\* C12: a record other than head whose table bytes the file holds is accepted
\* exactly when the wrapping sum of the table's words, the last one padded with
\* zeros, is record.checkSum, and is otherwise refused with an error naming its
\* tag, whatever bytes follow the table in the file (non-zero ones, or none).
C12_RecordCheckSum ==
    ( /\ last.op = "validate"
      /\ file.Tag # "head"
      /\ Len(file.bytes) >= file.Length )
    => /\ (last.outcome = "ok") <=> (simpleCheckSum(TableBody(file.bytes, file.Length)) = file.CheckSum)
       /\ last.outcome # "ok" => last.tag = file.Tag

\* ---------------------------------------------------- claims: ParseFont

\* ParseFont has returned, and no table record was refused by validate.
ParsedRecords == last.op = "ParseFont" /\ last.verr.err = ""

\* The tables parsing may leave out without an error.
OptionalTags == {"cmap", "cvt ", "fpgm", "prep"}

\* The tags parsed for the file's outline, in the order of the parse.
StepTags ==
    <<"name", "head", "hhea", "maxp", "hmtx", "cmap">> \o
        (IF file.sfntVersion = "CFFOpenType" THEN <<>>
         ELSE <<"cvt ", "fpgm", "prep", "loca", "glyf">>)

\* Whether the font holds the table of the tag.
FontHas(font, tag) ==
    CASE tag = "name" -> font.Name
      [] tag = "cmap" -> font.CMap
      [] tag = "cvt " -> font.Cvt
      [] tag = "fpgm" -> font.Fpgm
      [] tag = "prep" -> font.Prep
      [] tag = "head" -> font.Head # 0
      [] tag = "hhea" -> font.Hhea # 0
      [] tag = "maxp" -> font.Maxp # 0
      [] tag = "hmtx" -> font.Hmtx # Nil
      [] tag = "loca" -> font.Loca # Nil
      [] tag = "glyf" -> font.Glyf # Nil

\* The error ParseFont returned has an entry for the tag.
Reports(tag) == \E i \in DOMAIN last.errs : last.errs[i].tag = tag

\* C13: when the checksum of the head record is not the checksum of the head
\* table computed with checkSumAdjustment taken as zero, ParseFont returns an
\* error that reports head.
C13_HeadCheckSum ==
    ( /\ ParsedRecords
      /\ "head" \in file.tags
      /\ file.headCheckSum # HeadCheckSum(FileHead(file)) )
    => (last.outcome = "error" /\ Reports("head"))

\* C14: when only records of optional tables (cvt, fpgm, prep, cmap) carry a
\* wrong checksum, every other table of the file is parsed into the font, the
\* tables with the wrong checksum are left out, and the error reports them.
C14_OptionalCheckSum ==
    ( /\ last.op = "ParseFont"
      /\ file.badSums # {}
      /\ file.badSums \subseteq OptionalTags
      /\ (TableTags \ file.tags) \subseteq OptionalTags )
    => /\ last.outcome = "error"
       /\ \A tag \in file.badSums : Reports(tag)
       /\ \A i \in DOMAIN StepTags :
              StepTags[i] \in file.tags =>
                  (FontHas(fonts[1], StepTags[i]) <=> StepTags[i] \notin file.badSums)

\* The tables the parser of a table reads from.
DependsOn(tag) ==
    CASE tag = "hmtx" -> {"maxp", "hhea"}
      [] tag = "loca" -> {"maxp", "head"}
      [] tag = "glyf" -> {"loca"}
      [] OTHER -> {}

\* C15: when the file has the record of hmtx, loca or glyf and lacks a table it
\* depends on, ParseFont returns (it does not crash) with an error that reports
\* the dependent table, and the font returned does not hold that table.
C15_MissingDependency ==
    ParsedRecords =>
        \A i \in DOMAIN StepTags :
            (StepTags[i] \in file.tags /\ DependsOn(StepTags[i]) \ file.tags # {})
            => /\ last.outcome = "error"
               /\ Reports(StepTags[i])
               /\ ~FontHas(fonts[1], StepTags[i])

\* The entry of the aggregated error for a step of the log, <<>> when it has none.
StepError(e) ==
    IF ~e.found THEN (IF e.tag \in OptionalTags THEN <<>>
                      ELSE <<[tag |-> e.tag, msg |-> "table record is not found"]>>)
    ELSE IF e.err # "" THEN <<[tag |-> e.tag, msg |-> e.err]>>
    ELSE <<>>

RECURSIVE StepErrors(_)
StepErrors(log) ==
    IF log = <<>> THEN <<>> ELSE StepErrors(SubSeq(log, 1, Len(log) - 1)) \o StepError(log[Len(log)])

C17_TablesPresent ==
    last.op = "Tables" =>
        /\ \A i \in DOMAIN last.tables : ~last.tables[i].nilPointer
        /\ [i \in DOMAIN last.tables |-> last.tables[i].type] =
               SelectSeq(<<"Head", "Name", "Hhea", "Maxp", "Hmtx", "Cvt", "Fpgm", "Prep", "Loca", "Glyf">>,
                         LAMBDA x : \E i \in DOMAIN last.tables :
                                        last.tables[i].type = x /\ ~last.tables[i].nilPointer)

\* --------------------------------------------------------- claims: Builder

\* A nil table: the nil interface or a nil pointer of a table type.
IsNilTable(t) == t = NilInterface \/ t.nilPointer

\* The tables without the one that has the tag of t.
WithoutTag(tables, t) == SelectSeq(tables, LAMBDA cur : Tag(cur) # Tag(t))

\* C18: WithTable called with a nil table, on an empty builder or not, does not
\* fail and adds no entry: afterwards the table list is what it was, or has only
\* lost the table with the same tag.
C18_WithNilTable ==
    (last.op = "WithTable" /\ IsNilTable(last.t)) =>
        /\ last.outcome = "ok"
        /\ \/ builder = last.pre
           \/ last.t # NilInterface /\ builder = WithoutTag(last.pre, last.t)

\* The tags of the model in ascending ASCII order.
TagOrder == <<"cvt ", "glyf", "head", "hmtx", "loca", "maxp", "name">>

TagRank(tag) == CHOOSE i \in DOMAIN TagOrder : TagOrder[i] = tag

\* The chunks of a kind in a stream, in the order they were written.
ChunksOf(stream, kind) == SelectSeq(stream, LAMBDA c : c.kind = kind)

\* C19: in every font file written by Build the table records appear in
\* ascending ASCII order of their tags, whatever order the tables were given in.
C19_RecordsAscending ==
    (last.op = "Build" /\ last.stream # <<>>) =>
        LET recs == ChunksOf(last.stream, "TableRecord")
        IN  \A i, j \in DOMAIN recs :
                i < j => TagRank(recs[i].tag) < TagRank(recs[j].tag)

\* length rounded up to a multiple of 4.
RoundUp4(length) == ((length + 3) \div 4) * 4

\* C20: in the stream of a successful Build the body of every table starts at
\* the offset of its record; the first offset is 12 + 16 * numTables, every
\* offset is a multiple of 4, and each later offset is the previous one plus the
\* previous table's length rounded up to a multiple of 4.
C20_Offsets ==
    (last.op = "Build" /\ last.outcome = "ok") =>
        LET recs == ChunksOf(last.stream, "TableRecord")
            tabs == ChunksOf(last.stream, "Table")
        IN  /\ \A k \in DOMAIN recs :
                   /\ \E b \in DOMAIN tabs :
                          tabs[b].tag = recs[k].tag /\ tabs[b].pos = recs[k].tr.Offset
                   /\ recs[k].tr.Offset % 4 = 0
                   /\ k > 1 => recs[k].tr.Offset =
                                   recs[k - 1].tr.Offset + RoundUp4(recs[k - 1].tr.Length)
            /\ recs # <<>> => recs[1].tr.Offset = 12 + 16 * Len(recs)

\* C21: the bytes the store of a table emits are ceil(Length / 4) * 4 long, the
\* Length bytes of the body and the zero padding; for name also with an
\* odd-length record of another platform than Macintosh, for maxp also in
\* version 0.5, where the body is 6 bytes.
C21_StoredLength ==
    (last.op = "store" /\ last.outcome = "ok") => last.n = RoundUp4(Length(last.t))

\* ---------------------------------------------------- claims: offset table

\* The greatest power of two not exceeding n, and its logarithm.
Log2Floor(n) == CHOOSE k \in 0..15 : 2^k <= n /\ n < 2^(k + 1)

\* C22: for every numTables >= 1 of 16 bits the offset table created has
\* searchRange = 16 * P, entrySelector = log2(P) and rangeShift =
\* 16 * numTables - searchRange, P the greatest power of two not exceeding
\* numTables, none of them wrapped around 16 bits.
C22_OffsetTableFields ==
    (last.op = "createOffsetTable" /\ last.outcome = "ok" /\ last.ot.NumTables >= 1) =>
        LET k == Log2Floor(last.ot.NumTables)
        IN  /\ last.ot.SearchRange = 16 * 2^k
            /\ last.ot.EntrySelector = k
            /\ last.ot.RangeShift = 16 * last.ot.NumTables - 16 * 2^k

\* -------------------------------------------------- claims: the round trip

\* The tables of font i as a caller reads them: the counts and the glyph
\* tables, and whether the font holds each of the other tables.
TablesView(i) ==
    [ view |-> View(i),
      has  |-> [t \in {"Name", "CMap", "Cvt", "Fpgm", "Prep"} |-> fonts[i][t]],
      checkSumAdjustment |-> IF fonts[i].Head = 0 THEN -1
                             ELSE heads[fonts[i].Head].CheckSumAdjustment ]

\* C23: for every font that parses without error, building a file from its
\* tables and parsing that file succeeds and gives a font equal to the first
\* in every table.
C23_RoundTrip ==
    /\ last.op = "BuildFont" => last.outcome = "ok"
    /\ last.op = "ParseBuilt" =>
           /\ last.outcome = "ok"
           /\ Len(fonts) = 2
           /\ TablesView(2) = TablesView(1)

\* ------------------------------------------------- claims: the font builder

\* C24: after Build returns, with or without an error, every field of every
\* table of the font has the value it had before the call, checkSumAdjustment
\* of head included.
C24_FontUnchanged ==
    last.op = "Build" =>
        /\ View(last.src) = last.pre.tables
        /\ fonts[last.src].Head # 0 =>
               heads[fonts[last.src].Head].CheckSumAdjustment
                   = last.pre.checkSumAdjustment

\* ------------------------------------------------- claims: failing writes

\* C25: in Build, once a write to the sink fails no later write reaches the
\* sink and Build returns an error that carries that failure; a failure of a
\* checksum or a table record happens before anything is written.  The writes
\* Build attempts are those it makes into a sink that takes them all.
C25_FirstFailureStops ==
    last.op = "Build" =>
        \A full \in {BuildOf(builder, Buffer)} :
            /\ (last.tag # "" \/ last.outcome = "panic") =>
                   last.calls = 0 /\ last.stream = <<>>
            /\ full.outcome # "ok" => last.outcome = full.outcome /\ last.calls = 0
            /\ (full.outcome = "ok" /\ last.sink # Buffer /\ full.calls > last.sink) =>
                   /\ last.outcome = "error" /\ last.err = "sink"
                   /\ last.calls = last.sink + 1
                   /\ Len(last.stream) <= Len(full.stream)
                   /\ \A k \in 1..(Len(last.stream) - 1) : last.stream[k] = full.stream[k]
            /\ (full.outcome = "ok" /\ (last.sink = Buffer \/ full.calls <= last.sink)) =>
                   /\ last.outcome = "ok" /\ last.err = ""
                   /\ last.calls = full.calls /\ last.stream = full.stream

\* A Build of two tables whose sink refuses a write after the offset table and
\* a record went through, with writes of the tables not yet made.
C25_Witness ==
    /\ last.op = "Build" /\ last.err = "sink" /\ last.outcome = "error"
    /\ Len(builder) = 2
    /\ last.calls = last.sink + 1 /\ last.sink >= 2
    /\ BuildOf(builder, Buffer).calls > last.calls

\* ------------------------------------------------- claims: setting tables

\* The tables a builder holds after the calls WithTable(ts[1]), ...,
\* WithTable(ts[n]) on the tables pre: those of pre whose tag no call sets, in
\* their order, then the table of the last call of every tag, in the order of
\* these last calls.
AfterSetting(pre, ts) ==
    LET lastCalls == SelectSeq([k \in DOMAIN ts |-> [t |-> ts[k], k |-> k]],
                               LAMBDA x : \A j \in DOMAIN ts :
                                              j > x.k => Tag(ts[j]) # Tag(x.t))
    IN  SelectSeq(pre, LAMBDA cur : \A k \in DOMAIN ts : Tag(ts[k]) # Tag(cur))
            \o [k \in DOMAIN lastCalls |-> lastCalls[k].t]

\* The tables of the last call of WithTable or WithTables.
TablesSet ==
    IF last.op = "WithTable" THEN <<last.t>>
    ELSE IF last.op = "WithTables" THEN last.ts ELSE <<>>

\* C29: the tables of a builder never hold two tables of one tag, and after
\* WithTable or WithTables with tables that are not nil the builder holds, for
\* each tag, the table set last, the tables in the order in which their tags
\* were set last.
C29_LastSetOrder ==
    /\ \A i, j \in DOMAIN builder : i # j => Tag(builder[i]) # Tag(builder[j])
    /\ (TablesSet # <<>> /\ \A k \in DOMAIN TablesSet : ~IsNilTable(TablesSet[k])) =>
           /\ last.outcome = "ok"
           /\ builder = AfterSetting(last.pre, TablesSet)

\* WithTables sets one tag twice, with different tables, on a builder that
\* holds a table of this tag before another table.
C29_Witness ==
    /\ last.op = "WithTables" /\ last.outcome = "ok"
    /\ \A k \in DOMAIN last.ts : ~IsNilTable(last.ts[k])
    /\ Len(last.pre) = 2 /\ Len(last.ts) = 2
    /\ last.ts[1] # last.ts[2]
    /\ Tag(last.ts[1]) = Tag(last.ts[2])
    /\ Tag(last.pre[1]) = Tag(last.ts[1])
    /\ builder = <<last.pre[2], last.ts[2]>>

\* ------------------------------------------------- claims: earlier results

\* C28: after any number of FilterGlyf calls on one source font, every font
\* an earlier call returned has numGlyphs equal to the number of its glyf
\* slices and numberOfHMetrics equal to the number of its hMetrics records.
C28_EarlierResultsKeepCounts ==
    \A k \in 2..Len(fonts) :
        /\ maxps[fonts[k].Maxp].NumGlyphs = Len(fonts[k].Glyf.data)
        /\ hheas[fonts[k].Hhea].NumberOfHMetrics = Len(fonts[k].Hmtx.HMetrics)

\* ------------------------------------------------- claims: cmap format 4

\* x modulo 65536, for the sum of a 16-bit code and a signed 16-bit delta.
Mod65536(x) == IF x < 0 THEN x + 2^16 ELSE IF x >= 2^16 THEN x - 2^16 ELSE x

\* The decoding of the subtable has returned a map and no error.
Decoded == last.op = "createCMap" /\ last.outcome = "ok"

\* The map holds c -> (c + idDelta[i]) mod 65536 for every code c of segment i.
MapsByDelta(i) ==
    \A c \in file.StartCount[i]..file.EndCount[i] :
        /\ c \in DOMAIN last.cmap
        /\ last.cmap[c] = Mod65536(c + file.IDDelta[i])

\* The segments are not empty, in ascending order, and do not overlap.
SegmentsAscending ==
    \A i \in 1..file.SegCount :
        /\ file.StartCount[i] <= file.EndCount[i]
        /\ i < file.SegCount => file.EndCount[i] < file.StartCount[i + 1]

\* C26 as stated: for every segment i but the last with idRangeOffset[i] = 0
\* and every code c from startCode[i] to endCode[i], the decoded map holds
\* c -> (c + idDelta[i]) mod 65536, whatever the signed delta.
C26_DeltaMappingAnySegments ==
    Decoded =>
        \A i \in 1..(file.SegCount - 1) : file.IDRangeOffset[i] = 0 => MapsByDelta(i)

\* C26 for segments in ascending order that do not overlap: for every segment
\* i but the last with idRangeOffset[i] = 0 and every code c from startCode[i]
\* to endCode[i], the decoded map holds c -> (c + idDelta[i]) mod 65536,
\* whatever the signed delta.
C26_DeltaMapping ==
    (Decoded /\ SegmentsAscending) =>
        \A i \in 1..(file.SegCount - 1) : file.IDRangeOffset[i] = 0 => MapsByDelta(i)

\* A decoded subtable of two segments whose first maps the codes 0 and 1 by a
\* negative delta: the glyph of code 0 is taken around 16 bits.
C26_Witness ==
    /\ Decoded /\ SegmentsAscending
    /\ file.SegCount = 2 /\ file.IDRangeOffset[1] = 0
    /\ file.StartCount[1] = 0 /\ file.EndCount[1] = 1 /\ file.IDDelta[1] = -1
    /\ last.cmap[0] = MaxUint16 /\ last.cmap[1] = 0

\* C30: the decoding of a format 4 subtable ends, whatever the segment arrays
\* hold: the code counter of a segment never goes back (it does not wrap
\* around 16 bits), and createCMap returns.
C30_Terminates ==
    /\ [][(last.op = "createCMap" /\ last.inner /\ last'.inner) =>
              last'.c >= last.c]_vars
    /\ <>(last.op = "createCMap" /\ last.outcome # "running")

\* createCMap has returned for a subtable without a segment that ends at
\* 0xFFFF, with a segment whose start code exceeds its end code and one whose
\* codes reach 0xFFFE.
C30_Witness ==
    /\ Decoded
    /\ \A k \in 1..file.SegCount : file.EndCount[k] # MaxUint16
    /\ \E k \in 1..file.SegCount : file.StartCount[k] > file.EndCount[k]
    /\ (MaxUint16 - 1) \in DOMAIN last.cmap

\* ------------------------------------------------- claims: name strings

\* C27: in the bytes written for a parsed name table, the string of every
\* record lies where its fields say: Length bytes from the position
\* StringOffset + Offset of the table on, also for records that share storage
\* or whose offsets are not in the order of the records.
C27_RecordsDescribeStrings ==
    last.op = "Name.store" =>
        \A r \in DOMAIN last.n.NameRecords :
            LET nr    == last.n.NameRecords[r]
                bytes == valueBytes(nr)
                at    == last.n.StringOffset + nr.Offset - last.header
            IN  /\ Len(bytes) = nr.Length
                /\ \A k \in 1..nr.Length :
                       /\ at + k \in DOMAIN last.strings
                       /\ last.strings[at + k] = bytes[k]

====
